---- MODULE Spec2Model ----
(***************************************************************************)
(* Event-driven agent pipeline (Ingress -> Reasoner -> Executor) over a    *)
(* document store and an at-least-once bus.                                *)
(*                                                                         *)
(* The store layer (src/src/shared/firestore.ts) is modelled document by   *)
(* document: a document is a TLA+ record holding exactly the fields the    *)
(* code wrote, NoDoc stands for a missing document.  Timestamps are the    *)
(* millisecond clock value `now` (Date.now(); toISOString() and            *)
(* new Date(s).getTime() keep millisecond precision, so the value read     *)
(* back is the value written).                                             *)
(***************************************************************************)
EXTENDS Integers, Sequences, FiniteSets, TLC

\* The field names of the documents and records of the model.
Field ==
    [acked |-> "acked", action |-> "action", actionId |-> "actionId", arg |->
     "arg", at |-> "at", attempts |-> "attempts", body |-> "body", caller |->
     "caller",
     claimedAt |-> "claimedAt", completedAt |-> "completedAt", confidence |->
     "confidence", content |-> "content", contentType |-> "contentType",
     conversationId |-> "conversationId", createdAt |-> "createdAt", data |->
     "data", duplicate |-> "duplicate", error |-> "error", eventId |->
     "eventId", eventType |-> "eventType", existing |-> "existing",
     existingMessageId |-> "existingMessageId", exists |-> "exists",
     expression |-> "expression", handler |-> "handler", id |-> "id",
     idempotencyKey |-> "idempotencyKey", intentId |-> "intentId", isNew |->
     "isNew", key |-> "key", kind |-> "kind", messageId |-> "messageId",
     observed |-> "observed", op |-> "op", out |-> "out", outcome |->
     "outcome", parameters |-> "parameters", payload |-> "payload", pc |->
     "pc", producer |-> "producer", query |-> "query", response |->
     "response", result |-> "result", ret |-> "ret", retriedAt |->
     "retriedAt", snap |-> "snap", state |-> "state", status |-> "status",
     success |-> "success", targetLang |-> "targetLang", text |-> "text",
     threw |-> "threw", tool |-> "tool", topic |-> "topic", updatedAt |->
     "updatedAt", valid |-> "valid", validationError |-> "validationError",
     write |-> "write"]

VARIABLES
    now,              \* wall clock, ms
    conversations,    \* conversations/{id}
    receipts,         \* receipts/{eventId}
    idempotencyKeys,  \* idempotencyKeys/{key}
    messages,         \* conversations/{id}/messages/{messageId}
    intents,          \* conversations/{id}/intents/{intentId}
    actions,          \* conversations/{id}/actions/{actionId}
    events,           \* conversations/{id}/events/{eventId}
    bus,              \* the envelopes published, by eventId
    req,              \* POST /messages requests
    inv,              \* consumer invocations, one per delivery
    tx,               \* store-level callers: the transaction each one runs
    grants            \* history: every claim that was granted

storeVars == <<conversations, receipts, idempotencyKeys>>
subVars == <<messages, intents, actions, events>>
pipeVars == <<bus, req, inv>>
callerVars == <<tx, grants>>
vars == <<now, conversations, receipts, idempotencyKeys, messages, intents,
          actions, events, bus, req, inv, tx, grants>>

---------------------------------------------------------------------------
(* Bounds *)

NumCallers == 2
NumReqs == 1
NumPosts == 2
MaxDeliveries == 2
MaxTicks == 2
TickMs == 60000
NumPoison == 1

Callers == 1..NumCallers
\* the requests that run through the whole pipeline, and the concurrent
\* POST /messages requests of the Ingress-level specification
Reqs == 1..NumReqs
Posts == 1..NumPosts
Attempts == 1..MaxDeliveries

\* uuidv4() is modelled by the invocation that mints: two invocations never
\* mint the same id.  Request r mints its conversationId, messageId and the
\* eventId of its reasoning_requested event; the n-th Reasoner invocation for
\* request r's event mints an intentId and the eventId of an action_requested
\* event; an Executor invocation mints an actionId.
ConvId(r) == <<"conv", r>>
MsgId(r) == <<"msg", r>>
ReasoningEventId(r) == <<"event", r, 0>>
ActionEventId(r, n) == <<"event", r, n>>
IntentId(r, n) == <<"intent", r, n>>
ActionId(e, n) == <<"result", e[2], e[3], n>>

\* a conversationId the client made up (no conversation has it)
ClientConvId == <<"conv", 0>>
\* no conversationId in the body / no X-Idempotency-Key header
NoConv == <<"conv", 0 - 1>>
NoKey == <<"key", 0>>

ConvIds == {ConvId(r) : r \in Posts} \cup {ClientConvId}
ReasoningEventIds == {ReasoningEventId(r) : r \in Posts}
ActionEventIds == {ActionEventId(r, n) : r \in Posts, n \in Attempts}
EventIds == ReasoningEventIds \cup ActionEventIds
Keys == {<<"key", 1>>}
InvIds == EventIds \X Attempts

\* messages on the two topics that no publishEvent call produced: they carry
\* no envelope, hence no eventId; the model numbers them
PoisonIds == {<<"event", 0, k>> : k \in 1..NumPoison}
PoisonInvIds == PoisonIds \X Attempts

\* an action_requested envelope that is well formed but was not published by
\* the Reasoner (the Executor takes whatever its topic delivers)
ForeignEventId == <<"event", 0, 0>>
ForeignInvIds == {ForeignEventId} \X Attempts
ForeignIntentId == <<"intent", 0, 0>>
ForeignMsgId == <<"msg", 0>>

\* The store-level specifications exercise one document of each collection
\* (every transaction of the code reads and writes a single document).
StoreConv == ConvId(1)
StoreEvent == ReasoningEventId(1)
StoreKey == <<"key", 1>>

---------------------------------------------------------------------------
(* Documents *)

NoDoc == [exists |-> FALSE]
Exists(doc) == doc # NoDoc

\* set(data, {merge: true}) and update(data): the given fields replace the
\* stored ones, every other stored field stays.
Merge(doc, fields) ==
    [f \in (IF Exists(doc) THEN DOMAIN doc ELSE {}) \cup DOMAIN fields |->
        IF f \in DOMAIN fields THEN fields[f] ELSE doc[f]]

NoWrite == [kind |-> "none"]
SetDoc(data) == [data |-> data, kind |-> "set"]
UpdateDoc(data) == [data |-> data, kind |-> "update"]

\* What a document becomes when a write reaches it.
Apply(doc, write) ==
    CASE write.kind = "none" -> doc
      [] write.kind = "set" -> write.data
      [] write.kind = "update" -> Merge(doc, write.data)

---------------------------------------------------------------------------
(* State machine *)

ConversationState ==
    {"RECEIVED", "REASONING_REQUESTED", "INTENT_VALIDATED", "ACTION_REQUESTED",
     "ACTION_COMPLETED", "FAILED_VALIDATION", "FAILED_EXECUTION"}

VALID_TRANSITIONS ==
    [s \in ConversationState |->
        CASE s = "RECEIVED" -> {"REASONING_REQUESTED"}
          [] s = "REASONING_REQUESTED" -> {"INTENT_VALIDATED", "FAILED_VALIDATION"}
          [] s = "INTENT_VALIDATED" -> {"ACTION_REQUESTED"}
          [] s = "ACTION_REQUESTED" -> {"ACTION_COMPLETED", "FAILED_EXECUTION"}
          [] s = "ACTION_COMPLETED" -> {}
          [] s = "FAILED_VALIDATION" -> {}
          [] s = "FAILED_EXECUTION" -> {}]

\* A plausible slip: the guard lets a state be written over itself.
validateTransition_selfLoop(current, next) ==
    next \in VALID_TRANSITIONS[current] \cup {current}

validateTransition(current, next) ==
    IF current \in DOMAIN VALID_TRANSITIONS
    THEN next \in VALID_TRANSITIONS[current]
    ELSE FALSE

\* A plausible slip: the guard is never consulted.
assertTransition_skipped(current, next) == ""

\* assertTransition throws exactly when validateTransition is false.
assertTransition(current, next) ==
    IF validateTransition(current, next) THEN "" ELSE "InvalidTransition"

---------------------------------------------------------------------------
(* Store operations.  A transaction body is a function of the snapshot     *)
(* tx.get returned: it yields the value returned (or the error thrown)     *)
(* and the write it queued.  A throw inside the body queues nothing.       *)

createConversationDoc(conversationId) ==
    [conversationId |-> conversationId, createdAt |-> now,
     state |-> "RECEIVED", updatedAt |-> now]

transitionStateTx(snap, nextState) ==
    IF ~Exists(snap)
    THEN [ret |-> FALSE, threw |-> "NotFound", write |-> NoWrite]
    ELSE IF assertTransition(snap.state, nextState) # ""
    THEN [ret |-> FALSE, threw |-> "InvalidTransition", write |-> NoWrite]
    ELSE [ret |-> TRUE, threw |-> "",
          write |-> UpdateDoc([state |-> nextState, updatedAt |-> now])]

RECEIPT_STALE_THRESHOLD_MS == 2 * 60 * 1000

\* A plausible slip: a processing receipt is reclaimed whatever its age.
receiptIsFresh_never(claimedAt, at) == FALSE

\* A plausible slip: the boundary age counts as fresh.
receiptIsFresh_inclusive(claimedAt, at) == at - claimedAt <= RECEIPT_STALE_THRESHOLD_MS

\* age < RECEIPT_STALE_THRESHOLD_MS, age being Date.now() minus claimedAt
receiptIsFresh(claimedAt, at) == at - claimedAt < RECEIPT_STALE_THRESHOLD_MS

\* A plausible slip: the reclaim forgets to move claimedAt forward.
reclaimFields_keepClaimedAt(at) == [retriedAt |-> at, status |-> "processing"]

\* the fields the stale branch updates
reclaimFields(at) == [claimedAt |-> at, retriedAt |-> at, status |-> "processing"]

\* A plausible slip: the age test is made before the status is looked at.
claimReceiptTx_ignoresStatus(snap, eventId, meta) ==
    IF Exists(snap)
    THEN IF Field.claimedAt \in DOMAIN snap /\ ~receiptIsFresh(snap.claimedAt, now)
         THEN [ret |-> TRUE, threw |-> "",
               write |-> UpdateDoc(reclaimFields(now))]
         ELSE [ret |-> FALSE, threw |-> "", write |-> NoWrite]
    ELSE [ret |-> TRUE, threw |-> "",
          write |-> SetDoc([claimedAt |-> now,
                            conversationId |-> meta.conversationId,
                            eventId |-> eventId, handler |-> meta.handler,
                            messageId |-> meta.messageId,
                            status |-> "processing"])]

claimReceiptTx(snap, eventId, meta) ==
    IF Exists(snap)
    THEN IF snap.status = "completed"
         THEN [ret |-> FALSE, threw |-> "", write |-> NoWrite]
         ELSE IF snap.status = "processing" /\ Field.claimedAt \in DOMAIN snap
         THEN IF receiptIsFresh(snap.claimedAt, now)
              THEN [ret |-> FALSE, threw |-> "", write |-> NoWrite]
              ELSE [ret |-> TRUE, threw |-> "",
                    write |-> UpdateDoc(reclaimFields(now))]
         ELSE [ret |-> FALSE, threw |-> "", write |-> NoWrite]
    ELSE [ret |-> TRUE, threw |-> "",
          write |-> SetDoc([claimedAt |-> now,
                            conversationId |-> meta.conversationId,
                            eventId |-> eventId,
                            handler |-> meta.handler,
                            messageId |-> meta.messageId,
                            status |-> "processing"])]

\* A plausible slip: set() without { merge: true } replaces the document.
completeReceiptDoc_noMerge(doc) == [completedAt |-> now, status |-> "completed"]

\* set({status, completedAt}, {merge: true}): no transaction, never throws
\* on a missing document.
completeReceiptDoc(doc) ==
    Merge(doc, [completedAt |-> now, status |-> "completed"])

\* A plausible slip: the key is written whether or not it exists.
claimIdempotencyKeyTx_overwrite(snap, messageId) ==
    [ret |-> [isNew |-> TRUE], threw |-> "",
     write |-> SetDoc([createdAt |-> now, messageId |-> messageId])]

claimIdempotencyKeyTx(snap, messageId) ==
    IF Exists(snap)
    THEN [ret |-> [existingMessageId |-> snap.messageId, isNew |-> FALSE],
          threw |-> "", write |-> NoWrite]
    ELSE [ret |-> [isNew |-> TRUE], threw |-> "",
          write |-> SetDoc([createdAt |-> now, messageId |-> messageId])]

---------------------------------------------------------------------------
(* runTransaction.  The body runs on the snapshot tx.get returned; the     *)
(* commit goes through only if the document read is still what was read,   *)
(* otherwise the body is run again on a new snapshot.                      *)

Idle == [pc |-> "idle"]

TxDoc(op, id) ==
    CASE op = "transitionState" -> conversations[id]
      [] op = "claimReceipt" -> receipts[id]
      [] op = "claimIdempotencyKey" -> idempotencyKeys[id]

TxBody(op, snap, id, arg) ==
    CASE op = "transitionState" -> transitionStateTx(snap, arg)
      [] op = "claimReceipt" -> claimReceiptTx(snap, id, arg)
      [] op = "claimIdempotencyKey" -> claimIdempotencyKeyTx(snap, arg)

\* A plausible slip: a plain read followed by a plain write (no transaction).
TxConflict_none(snap, current) == FALSE

TxConflict(snap, current) == snap # current

\* claimReceipt returned true / claimIdempotencyKey returned {isNew: true}
Granted(op, out) ==
    \/ op = "claimReceipt" /\ out.ret = TRUE
    \/ op = "claimIdempotencyKey" /\ out.ret.isNew

TxRun(k, op, id, arg) ==
    tx' = [tx EXCEPT ![k] =
              [arg |-> arg, at |-> now, id |-> id, op |-> op,
               out |-> TxBody(op, TxDoc(op, id), id, arg),
               pc |-> "commit", snap |-> TxDoc(op, id)]]

TxBegin(k, op, id, arg) ==
    /\ tx[k].pc \in {"idle", "done"}
    /\ TxRun(k, op, id, arg)
    /\ UNCHANGED <<now, storeVars, subVars, pipeVars, grants>>

TxWrite(op, id, write) ==
    /\ conversations' =
          IF op = "transitionState"
          THEN [conversations EXCEPT ![id] = Apply(@, write)] ELSE conversations
    /\ receipts' =
          IF op = "claimReceipt"
          THEN [receipts EXCEPT ![id] = Apply(@, write)] ELSE receipts
    /\ idempotencyKeys' =
          IF op = "claimIdempotencyKey"
          THEN [idempotencyKeys EXCEPT ![id] = Apply(@, write)] ELSE idempotencyKeys

TxCommit(k) ==
    /\ tx[k].pc = "commit"
    /\ LET t == tx[k] IN
       IF TxConflict(t.snap, TxDoc(t.op, t.id))
       THEN /\ TxRun(k, t.op, t.id, t.arg)
            /\ UNCHANGED <<now, storeVars, subVars, pipeVars, grants>>
       ELSE /\ TxWrite(t.op, t.id, t.out.write)
            /\ tx' = [tx EXCEPT ![k] =
                        [arg |-> t.arg, at |-> t.at, id |-> t.id, op |-> t.op,
                         pc |-> "done", ret |-> t.out.ret,
                         threw |-> t.out.threw]]
            /\ grants' =
                  IF Granted(t.op, t.out)
                  THEN grants \cup {[arg |-> t.arg, at |-> t.at, caller |-> k,
                                     id |-> t.id, observed |-> t.snap, op |-> t.op]}
                  ELSE grants
            /\ UNCHANGED <<now, subVars, pipeVars>>

Tick ==
    /\ now < MaxTicks * TickMs
    /\ now' = now + TickMs
    /\ UNCHANGED <<storeVars, subVars, pipeVars, callerVars>>

---------------------------------------------------------------------------
(* Store-level specifications: any caller may invoke an operation with any *)
(* argument at any time.                                                   *)

\* The state after deployment: an empty store, an empty bus, nothing running.
Init ==
    /\ now = 0
    /\ conversations = [c \in ConvIds |-> NoDoc]
    /\ receipts = [e \in EventIds \cup {ForeignEventId} |-> NoDoc]
    /\ idempotencyKeys = [key \in Keys |-> NoDoc]
    /\ messages = {}
    /\ intents = {}
    /\ actions = {}
    /\ events = {}
    /\ bus = [e \in EventIds \cup {ForeignEventId} \cup PoisonIds |-> NoDoc]
    /\ req = [r \in Posts |-> Idle]
    /\ inv = [i \in InvIds \cup ForeignInvIds \cup PoisonInvIds |-> Idle]
    /\ tx = [k \in Callers |-> Idle]
    /\ grants = {}

CreateConversation(id) ==
    /\ conversations' = [conversations EXCEPT ![id] = createConversationDoc(id)]
    /\ UNCHANGED <<now, receipts, idempotencyKeys, subVars, pipeVars, callerVars>>

TransitionState(k, id, nextState) == TxBegin(k, "transitionState", id, nextState)

NextConv ==
    \/ CreateConversation(StoreConv)
    \/ \E k \in Callers, nextState \in ConversationState :
          TransitionState(k, StoreConv, nextState)
    \/ \E k \in Callers : TxCommit(k)

SpecConv == Init /\ [][NextConv]_vars

\* the meta a consumer passes to claimReceipt
ReceiptMeta(handler) ==
    [conversationId |-> StoreConv, handler |-> handler, messageId |-> MsgId(1)]

ClaimReceipt(k, eventId, meta) == TxBegin(k, "claimReceipt", eventId, meta)

CompleteReceipt(eventId) ==
    /\ receipts' = [receipts EXCEPT ![eventId] = completeReceiptDoc(@)]
    /\ UNCHANGED <<now, conversations, idempotencyKeys, subVars, pipeVars, callerVars>>

NextReceipt ==
    \/ Tick
    \/ \E k \in Callers, handler \in {"reasoner", "executor"} :
          ClaimReceipt(k, StoreEvent, ReceiptMeta(handler))
    \/ \E k \in Callers : TxCommit(k)
    \/ CompleteReceipt(StoreEvent)

SpecReceipt == Init /\ [][NextReceipt]_vars

\* claimReceipt as a function of the stored document: the documents it can be
\* handed.  The code writes the first, second and last of them; the other two
\* (a status the code does not know, a processing receipt with no claimedAt)
\* are what its last `return false` is there for.
ReceiptDocs ==
    {NoDoc,
     [claimedAt |-> 0, conversationId |-> StoreConv, eventId |-> StoreEvent,
      handler |-> "reasoner", messageId |-> MsgId(1), status |-> "processing"],
     [completedAt |-> 0, status |-> "completed"],
     [claimedAt |-> 0, conversationId |-> StoreConv, eventId |-> StoreEvent,
      handler |-> "reasoner", messageId |-> MsgId(1), status |-> "failed"],
     [conversationId |-> StoreConv, eventId |-> StoreEvent,
      handler |-> "reasoner", messageId |-> MsgId(1), status |-> "processing"]}

InitClaim ==
    /\ now = 0
    /\ conversations = [c \in ConvIds |-> NoDoc]
    /\ \E doc \in ReceiptDocs :
          receipts = [e \in EventIds \cup {ForeignEventId} |->
                         IF e = StoreEvent THEN doc ELSE NoDoc]
    /\ idempotencyKeys = [key \in Keys |-> NoDoc]
    /\ messages = {}
    /\ intents = {}
    /\ actions = {}
    /\ events = {}
    /\ bus = [e \in EventIds \cup {ForeignEventId} \cup PoisonIds |-> NoDoc]
    /\ req = [r \in Posts |-> Idle]
    /\ inv = [i \in InvIds \cup ForeignInvIds \cup PoisonInvIds |-> Idle]
    /\ tx = [k \in Callers |-> Idle]
    /\ grants = {}

SpecClaim == InitClaim /\ [][NextReceipt]_vars

\* each caller passes the messageId it minted (uuidv4() in POST /messages)
CallerMsg(k) == <<"callermsg", k>>

ClaimIdempotencyKey(k, key, messageId) ==
    TxBegin(k, "claimIdempotencyKey", key, messageId)

NextKey ==
    \/ Tick
    \/ \E k \in Callers : ClaimIdempotencyKey(k, StoreKey, CallerMsg(k))
    \/ \E k \in Callers : TxCommit(k)

SpecKey == Init /\ [][NextKey]_vars

---------------------------------------------------------------------------
(* Documents under a conversation, the bus, the pure functions.            *)
(* createdAt / executedAt / timestamp of messages, intents, results, log   *)
(* entries and envelopes are not modelled: nothing in the code reads them. *)

\* A plausible slip: the write is never awaited and is lost.
PutDoc_dropped(coll, idField, doc) == coll

\* .collection(sub).doc(id).set(doc): the document with that id is replaced
PutDoc(coll, idField, doc) ==
    {d \in coll : ~(d.conversationId = doc.conversationId /\ d[idField] = doc[idField])}
       \cup {doc}

TOPIC_REASONING == "reasoning-requested"
TOPIC_ACTION == "action-requested"
MaxDeliveryAttempts == 5

\* publishEvent(topic, event): the envelope is on the topic, not yet delivered
publishEvent(topicName, event) ==
    [bus EXCEPT ![event.eventId] =
        [acked |-> FALSE, attempts |-> 0,
         conversationId |-> event.conversationId, eventId |-> event.eventId,
         eventType |-> event.eventType, messageId |-> event.messageId,
         payload |-> event.payload, producer |-> event.producer,
         topic |-> topicName]]

\* message.data of a delivery.  A published envelope travels as the base64
\* text of JSON.stringify(event); a message someone else put on the topic may
\* have no data, or data that is not JSON.
MessageData(envelope) ==
    IF Field.data \in DOMAIN envelope THEN envelope.data
    ELSE [data |-> [f \in DOMAIN envelope \ {"acked", "attempts", "topic"} |->
                       envelope[f]],
          kind |-> "json"]

PoisonData == {[kind |-> "missing"], [kind |-> "notJson"]}

\* A plausible slip: the decoder hands back whatever it was given.
decodeEventData_lenient(data) == [ret |-> data, threw |-> ""]

\* decodeEventData: throws on missing data, and JSON.parse throws on the rest
decodeEventData(data) ==
    CASE data.kind = "missing" ->
           [threw |-> "Missing Pub/Sub message data in CloudEvent"]
      [] data.kind = "notJson" -> [threw |-> "SyntaxError"]
      [] data.kind = "json" -> [ret |-> data.data, threw |-> ""]

\* the sample message texts
Contents == {"FIND cats", "translate my summary"}

toLowerCase(content) ==
    CASE content = "FIND cats" -> "find cats"
      [] OTHER -> content

\* lower.includes(word), for the words mockReasoning looks for
includes(lower, word) ==
    word \in (CASE lower = "find cats" -> {"find"}
                [] lower = "translate my summary" -> {"translate", "summary"}
                [] OTHER -> {})

\* confidence is in hundredths (0.92 is 92)
mockReasoning(content, conversationId, messageId, intentId) ==
    LET lower == toLowerCase(content)
        intent(action, parameters, confidence) ==
            [action |-> action, confidence |-> confidence,
             conversationId |-> conversationId, intentId |-> intentId,
             messageId |-> messageId, parameters |-> parameters]
    IN  IF includes(lower, "search") \/ includes(lower, "find")
        THEN intent("search", [query |-> content], 92)
        ELSE IF includes(lower, "calculate") \/ includes(lower, "compute")
                   \/ includes(lower, "math")
        THEN intent("calculate", [expression |-> content], 88)
        ELSE IF includes(lower, "summarize") \/ includes(lower, "summary")
        THEN intent("summarize", [text |-> content], 85)
        ELSE IF includes(lower, "translate")
        THEN intent("translate", [targetLang |-> "en", text |-> content], 90)
        ELSE intent("search", [query |-> content], 60)

ToolActions == {"search", "calculate", "summarize", "translate"}

\* IntentSchema.safeParse: the paths that fail (ids are minted uuids and
\* non-empty strings, parameters is always an object)
validateIntent(raw) ==
    LET issues == (IF raw.action \in ToolActions THEN {} ELSE {"action"})
                  \cup (IF raw.confidence >= 0 /\ raw.confidence <= 100
                        THEN {} ELSE {"confidence"})
    IN  IF issues = {} THEN [valid |-> TRUE]
        ELSE [error |-> issues, valid |-> FALSE]

\* the intent document the Reasoner persists
intentDoc(raw, validation) ==
    LET doc == [action |-> raw.action, confidence |-> raw.confidence,
                conversationId |-> raw.conversationId, intentId |-> raw.intentId,
                messageId |-> raw.messageId, parameters |-> raw.parameters,
                valid |-> validation.valid]
    IN  IF validation.valid THEN doc
        ELSE Merge(doc, [validationError |-> validation.error])

\* A plausible slip: one of the schema's actions has no case in the switch.
executeTool_noSummarize(action, parameters) ==
    CASE action = "search" ->
           [result |-> [tool |-> "search"], success |-> TRUE]
      [] action = "calculate" ->
           [result |-> [tool |-> "calculate"], success |-> TRUE]
      [] action = "translate" ->
           [result |-> [tool |-> "translate"], success |-> TRUE]
      [] OTHER ->
           [error |-> "Unknown action", result |-> [tool |-> "none"],
            success |-> FALSE]

\* A plausible slip: the default branch reports success like the others.
executeTool_defaultSucceeds(action, parameters) ==
    [result |-> [tool |-> "none"], success |-> TRUE]

executeTool(action, parameters) ==
    CASE action = "search" ->
           [result |-> [tool |-> "search"], success |-> TRUE]
      [] action = "calculate" ->
           [result |-> [tool |-> "calculate"], success |-> TRUE]
      [] action = "summarize" ->
           [result |-> [tool |-> "summarize"], success |-> TRUE]
      [] action = "translate" ->
           [result |-> [tool |-> "translate"], success |-> TRUE]
      [] OTHER ->
           [error |-> "Unknown action", result |-> [tool |-> "none"],
            success |-> FALSE]

\* A plausible slip: the query looks in the wrong place and finds nothing.
findActionResultByIntentId_never(conversationId, intentId) == FALSE

\* findActionResultByIntentId: a plain query, outside any transaction
findActionResultByIntentId(conversationId, intentId) ==
    \E a \in actions : a.conversationId = conversationId /\ a.intentId = intentId

---------------------------------------------------------------------------
(* Ingress: POST /messages.  One action per awaited store or bus call.     *)

Bodies ==
    {[content |-> c, contentType |-> "string"] : c \in Contents \cup {""}}
       \cup {[content |-> "", contentType |-> "undefined"],
             [content |-> "42", contentType |-> "number"]}

\* A plausible slip: only the type of content is looked at.
BadContent_typeOnly(body) == body.contentType # "string"

\* !content || typeof content !== 'string'
BadContent(body) == body.content = "" \/ body.contentType # "string"

Respond(r, response) ==
    req' = [req EXCEPT ![r] = Merge(@, [pc |-> "responded", response |-> response])]

Goto(r, pc) == req' = [req EXCEPT ![r].pc = pc]

\* the request arrives: body check, ids minted
IngressReceive(r, body, key, existingConvId) ==
    /\ req[r].pc = "idle"
    /\ \A q \in Posts : q < r => req[q].pc # "idle"
    /\ IF BadContent(body)
       THEN req' = [req EXCEPT ![r] =
                       [body |-> body, pc |-> "responded",
                        response |-> [error |-> "Missing or invalid \"content\" field",
                                      status |-> 400]]]
       ELSE req' = [req EXCEPT ![r] =
                       [content |-> body.content,
                        conversationId |-> IF existingConvId = NoConv
                                           THEN ConvId(r) ELSE existingConvId,
                        eventId |-> ReasoningEventId(r),
                        existing |-> existingConvId # NoConv,
                        key |-> key,
                        messageId |-> MsgId(r),
                        pc |-> IF key # NoKey THEN "claimIdempotencyKey"
                               ELSE IF existingConvId = NoConv
                               THEN "createConversation" ELSE "saveMessage"]]
    /\ UNCHANGED <<now, storeVars, subVars, bus, inv, callerVars>>

IngressClaimKey(r) ==
    /\ req[r].pc = "claimIdempotencyKey"
    /\ LET claim == claimIdempotencyKeyTx(idempotencyKeys[req[r].key], req[r].messageId)
       IN  /\ idempotencyKeys' = [idempotencyKeys EXCEPT ![req[r].key] =
                                     Apply(@, claim.write)]
           /\ IF ~claim.ret.isNew
              THEN Respond(r, [duplicate |-> TRUE,
                               messageId |-> claim.ret.existingMessageId,
                               status |-> 200])
              ELSE Goto(r, IF req[r].existing THEN "saveMessage"
                           ELSE "createConversation")
    /\ UNCHANGED <<now, conversations, receipts, subVars, bus, inv, callerVars>>

IngressCreateConversation(r) ==
    /\ req[r].pc = "createConversation"
    /\ conversations' = [conversations EXCEPT ![req[r].conversationId] =
                            createConversationDoc(req[r].conversationId)]
    /\ Goto(r, "saveMessage")
    /\ UNCHANGED <<now, receipts, idempotencyKeys, subVars, bus, inv, callerVars>>

messageDoc(r) ==
    LET doc == [content |-> req[r].content,
                conversationId |-> req[r].conversationId,
                messageId |-> req[r].messageId]
    IN  IF req[r].key = NoKey THEN doc
        ELSE Merge(doc, [idempotencyKey |-> req[r].key])

IngressSaveMessage(r) ==
    /\ req[r].pc = "saveMessage"
    /\ messages' = PutDoc(messages, Field.messageId, messageDoc(r))
    /\ Goto(r, "logEvent")
    /\ UNCHANGED <<now, storeVars, intents, actions, events, bus, inv, callerVars>>

logEntry(conversationId, eventId, eventType, payload) ==
    [conversationId |-> conversationId, eventId |-> eventId,
     eventType |-> eventType, payload |-> payload]

IngressLogEvent(r) ==
    /\ req[r].pc = "logEvent"
    /\ events' = PutDoc(events, Field.eventId,
                        logEntry(req[r].conversationId, req[r].eventId,
                                 "reasoning_requested", [content |-> req[r].content]))
    /\ Goto(r, "publishEvent")
    /\ UNCHANGED <<now, storeVars, messages, intents, actions, bus, inv, callerVars>>

IngressPublish(r) ==
    /\ req[r].pc = "publishEvent"
    /\ bus' = publishEvent(TOPIC_REASONING,
                           [conversationId |-> req[r].conversationId,
                            eventId |-> req[r].eventId,
                            eventType |-> "reasoning_requested",
                            messageId |-> req[r].messageId,
                            payload |-> [content |-> req[r].content],
                            producer |-> "api"])
    /\ Goto(r, "transitionState")
    /\ UNCHANGED <<now, storeVars, subVars, inv, callerVars>>

IngressTransition(r) ==
    /\ req[r].pc = "transitionState"
    /\ LET out == transitionStateTx(conversations[req[r].conversationId],
                                    "REASONING_REQUESTED")
       IN  /\ conversations' = [conversations EXCEPT ![req[r].conversationId] =
                                   Apply(@, out.write)]
           /\ IF out.threw # ""
              THEN Respond(r, [error |-> out.threw, status |-> 500])
              ELSE Respond(r, [conversationId |-> req[r].conversationId,
                               eventId |-> req[r].eventId,
                               messageId |-> req[r].messageId,
                               state |-> "REASONING_REQUESTED",
                               status |-> 201])
    /\ UNCHANGED <<now, receipts, idempotencyKeys, subVars, bus, inv, callerVars>>

\* an awaited call rejects (store or bus error): the catch block answers 500
IngressError(r) ==
    /\ req[r].pc \notin {"idle", "responded"}
    /\ Respond(r, [error |-> "StoreError", status |-> 500])
    /\ UNCHANGED <<now, storeVars, subVars, bus, inv, callerVars>>

---------------------------------------------------------------------------
(* The bus and the two subscribers.  An invocation is one delivery of one  *)
(* envelope; returning acknowledges it, throwing or crashing does not.     *)

Subscriber(topicName) ==
    IF topicName = TOPIC_REASONING THEN "reasoner" ELSE "executor"

\* both handlers begin with decodeEventData(event.data) in a try block
HandlerDecode(e) == decodeEventData(MessageData(bus[e]))

\* a message that is not an envelope appears on a topic
ForeignPublish(p, topicName, data) ==
    /\ ~Exists(bus[p])
    /\ bus' = [bus EXCEPT ![p] = [acked |-> FALSE, attempts |-> 0,
                                  data |-> data, topic |-> topicName]]
    /\ UNCHANGED <<now, storeVars, subVars, req, inv, callerVars>>

\* the actions a foreign envelope asks for
ForeignActions == {"search", "delete"}

\* an action_requested envelope naming conversation c appears on the
\* Executor's topic
ForeignAction(c, action) ==
    /\ ~Exists(bus[ForeignEventId])
    /\ bus' = publishEvent(TOPIC_ACTION,
                           [conversationId |-> c,
                            eventId |-> ForeignEventId,
                            eventType |-> "action_requested",
                            messageId |-> ForeignMsgId,
                            payload |-> [action |-> action,
                                         confidence |-> 100,
                                         intentId |-> ForeignIntentId,
                                         parameters |-> [query |-> "cats"]],
                            producer |-> "reasoner"])
    /\ UNCHANGED <<now, storeVars, subVars, req, inv, callerVars>>

\* a delivery attempt of a published message (at-least-once: also after an
\* ack), and the handler's start: it decodes, and returns if that throws
Deliver(e) ==
    /\ Exists(bus[e])
    /\ bus[e].attempts < MaxDeliveries
    /\ bus[e].attempts < MaxDeliveryAttempts
    /\ LET n == bus[e].attempts + 1
           agentEvent == HandlerDecode(e)
       IN  IF agentEvent.threw # ""
           THEN /\ bus' = [bus EXCEPT ![e].acked = TRUE, ![e].attempts = n]
                /\ inv' = [inv EXCEPT ![<<e, n>>] =
                              [handler |-> Subscriber(bus[e].topic),
                               outcome |-> "decodeFailed", pc |-> "acked"]]
           ELSE /\ bus' = [bus EXCEPT ![e].attempts = n]
                /\ inv' = [inv EXCEPT ![<<e, n>>] =
                              [handler |-> Subscriber(bus[e].topic),
                               outcome |-> "running", pc |-> "claimReceipt"]]
    /\ UNCHANGED <<now, storeVars, subVars, req, callerVars>>

Running(i) == inv[i].pc \notin {"idle", "acked", "nacked"}

\* the handler returns
Ack(i, outcome) ==
    /\ inv' = [inv EXCEPT ![i] = [handler |-> @.handler, outcome |-> outcome,
                                  pc |-> "acked"]]
    /\ bus' = [bus EXCEPT ![i[1]].acked = TRUE]

\* the handler throws
Nack(i, outcome) ==
    inv' = [inv EXCEPT ![i] = [handler |-> @.handler, outcome |-> outcome,
                               pc |-> "nacked"]]

Step(i, pc) == inv' = [inv EXCEPT ![i].pc = pc]

\* the instance dies, or an awaited call rejects, at any point of a handler
Crash(i) ==
    /\ Running(i)
    /\ Nack(i, "crash")
    /\ UNCHANGED <<now, storeVars, subVars, bus, req, callerVars>>

\* claimReceipt as both handlers await it; a handler that obtained the claim
\* carries the time it obtained it (at) while it runs
HandlerClaimReceipt(i) ==
    /\ inv[i].pc = "claimReceipt"
    /\ LET env == bus[i[1]]
           claim == claimReceiptTx(receipts[i[1]], i[1],
                                   [conversationId |-> env.conversationId,
                                    handler |-> inv[i].handler,
                                    messageId |-> env.messageId])
       IN  /\ receipts' = [receipts EXCEPT ![i[1]] = Apply(@, claim.write)]
           /\ IF ~claim.ret
              THEN Ack(i, "duplicate")
              ELSE /\ inv' = [inv EXCEPT ![i] =
                                 [at |-> now, handler |-> @.handler,
                                  outcome |-> @.outcome,
                                  pc |-> IF @.handler = "reasoner" THEN "saveIntent"
                                         ELSE "findActionResult"]]
                   /\ UNCHANGED bus
    /\ UNCHANGED <<now, conversations, idempotencyKeys, subVars, req, callerVars>>

\* transitionState as a handler awaits it: a throw leaves the handler
HandlerTransition(i, nextState, nextPc) ==
    LET c == bus[i[1]].conversationId
        out == transitionStateTx(conversations[c], nextState)
    IN  /\ conversations' = [conversations EXCEPT ![c] = Apply(@, out.write)]
        /\ IF out.threw # "" THEN Nack(i, out.threw) ELSE Step(i, nextPc)
        /\ UNCHANGED <<now, receipts, idempotencyKeys, subVars, bus, req, callerVars>>

HandlerCompleteReceipt(i) ==
    /\ inv[i].pc = "completeReceipt"
    /\ receipts' = [receipts EXCEPT ![i[1]] = completeReceiptDoc(@)]
    /\ Ack(i, IF inv[i].outcome = "running" THEN "completed" ELSE inv[i].outcome)
    /\ UNCHANGED <<now, conversations, idempotencyKeys, subVars, req, callerVars>>

\* the Reasoner's intent for one invocation (intentId minted per invocation)
ReasonerIntent(i) ==
    LET env == bus[i[1]]
        raw == mockReasoning(env.payload.content, env.conversationId,
                             env.messageId, IntentId(i[1][2], i[2]))
    IN  intentDoc(raw, validateIntent(raw))

ReasonerSaveIntent(i) ==
    /\ inv[i].pc = "saveIntent"
    /\ intents' = PutDoc(intents, Field.intentId, ReasonerIntent(i))
    /\ Step(i, "logEvent")
    /\ UNCHANGED <<now, storeVars, messages, actions, events, bus, req, callerVars>>

ReasonerLogEvent(i) ==
    /\ inv[i].pc = "logEvent" /\ inv[i].handler = "reasoner"
    /\ LET doc == ReasonerIntent(i)
       IN  /\ events' = PutDoc(events, Field.eventId,
                               logEntry(doc.conversationId, i[1], "reasoning_completed",
                                        [intentId |-> doc.intentId, valid |-> doc.valid]))
           /\ Step(i, IF doc.valid THEN "toValidated" ELSE "toFailedValidation")
    /\ UNCHANGED <<now, storeVars, messages, intents, actions, bus, req, callerVars>>

ReasonerTransition(i) ==
    /\ inv[i].pc \in {"toFailedValidation", "toValidated", "toRequested"}
    /\ CASE inv[i].pc = "toFailedValidation" ->
              HandlerTransition(i, "FAILED_VALIDATION", "completeReceipt")
         [] inv[i].pc = "toValidated" ->
              HandlerTransition(i, "INTENT_VALIDATED", "publishEvent")
         [] inv[i].pc = "toRequested" ->
              HandlerTransition(i, "ACTION_REQUESTED", "completeReceipt")

ReasonerPublish(i) ==
    /\ inv[i].pc = "publishEvent"
    /\ LET doc == ReasonerIntent(i)
       IN  bus' = publishEvent(TOPIC_ACTION,
                     [conversationId |-> doc.conversationId,
                      eventId |-> ActionEventId(i[1][2], i[2]),
                      eventType |-> "action_requested",
                      messageId |-> doc.messageId,
                      payload |-> [action |-> doc.action,
                                   confidence |-> doc.confidence,
                                   intentId |-> doc.intentId,
                                   parameters |-> doc.parameters],
                      producer |-> "reasoner"])
    /\ Step(i, "toRequested")
    /\ UNCHANGED <<now, storeVars, subVars, req, callerVars>>

ExecutorFind(i) ==
    /\ inv[i].pc = "findActionResult"
    /\ IF findActionResultByIntentId(bus[i[1]].conversationId,
                                     bus[i[1]].payload.intentId)
       THEN inv' = [inv EXCEPT ![i].outcome = "alreadyExecuted",
                            ![i].pc = "completeReceipt"]
       ELSE Step(i, "saveActionResult")
    /\ UNCHANGED <<now, storeVars, subVars, bus, req, callerVars>>

\* the ActionResult of one invocation (actionId minted per invocation)
ExecutorResult(i) ==
    LET env == bus[i[1]]
        out == executeTool(env.payload.action, env.payload.parameters)
        doc == [actionId |-> ActionId(i[1], i[2]),
                conversationId |-> env.conversationId,
                intentId |-> env.payload.intentId,
                messageId |-> env.messageId,
                result |-> out.result, success |-> out.success]
    IN  IF out.success THEN doc ELSE Merge(doc, [error |-> out.error])

ExecutorSave(i) ==
    /\ inv[i].pc = "saveActionResult"
    /\ actions' = PutDoc(actions, Field.actionId, ExecutorResult(i))
    /\ Step(i, "logEvent")
    /\ UNCHANGED <<now, storeVars, messages, intents, events, bus, req, callerVars>>

ExecutorLogEvent(i) ==
    /\ inv[i].pc = "logEvent" /\ inv[i].handler = "executor"
    /\ LET doc == ExecutorResult(i)
       IN  /\ events' = PutDoc(events, Field.eventId,
                               logEntry(doc.conversationId, i[1], "action_executed",
                                        [actionId |-> doc.actionId,
                                         success |-> doc.success]))
           /\ Step(i, IF doc.success THEN "toCompleted" ELSE "toFailedExecution")
    /\ UNCHANGED <<now, storeVars, messages, intents, actions, bus, req, callerVars>>

ExecutorTransition(i) ==
    /\ inv[i].pc \in {"toCompleted", "toFailedExecution"}
    /\ IF inv[i].pc = "toCompleted"
       THEN HandlerTransition(i, "ACTION_COMPLETED", "completeReceipt")
       ELSE HandlerTransition(i, "FAILED_EXECUTION", "completeReceipt")

Next ==
    \/ Tick
    \/ \E r \in Reqs, body \in Bodies, key \in Keys \cup {NoKey},
          c \in {NoConv, ClientConvId} \cup {d \in ConvIds : Exists(conversations[d])} :
          IngressReceive(r, body, key, c)
    \/ \E r \in Reqs : IngressClaimKey(r)
    \/ \E r \in Reqs : IngressCreateConversation(r)
    \/ \E r \in Reqs : IngressSaveMessage(r)
    \/ \E r \in Reqs : IngressLogEvent(r)
    \/ \E r \in Reqs : IngressPublish(r)
    \/ \E r \in Reqs : IngressTransition(r)
    \/ \E r \in Reqs : IngressError(r)
    \/ \E e \in EventIds : Deliver(e)
    \/ \E i \in InvIds : Crash(i)
    \/ \E i \in InvIds : HandlerClaimReceipt(i)
    \/ \E i \in InvIds : HandlerCompleteReceipt(i)
    \/ \E i \in InvIds : ReasonerSaveIntent(i)
    \/ \E i \in InvIds : ReasonerLogEvent(i)
    \/ \E i \in InvIds : ReasonerTransition(i)
    \/ \E i \in InvIds : ReasonerPublish(i)
    \/ \E i \in InvIds : ExecutorFind(i)
    \/ \E i \in InvIds : ExecutorSave(i)
    \/ \E i \in InvIds : ExecutorLogEvent(i)
    \/ \E i \in InvIds : ExecutorTransition(i)

Spec == Init /\ [][Next]_vars

\* Ingress alone: concurrent POST /messages requests, nothing delivered yet
NextIngress ==
    \/ \E r \in Posts, body \in Bodies, key \in Keys \cup {NoKey},
          c \in {NoConv, ClientConvId} \cup {d \in ConvIds : Exists(conversations[d])} :
          IngressReceive(r, body, key, c)
    \/ \E r \in Posts : IngressClaimKey(r)
    \/ \E r \in Posts : IngressCreateConversation(r)
    \/ \E r \in Posts : IngressSaveMessage(r)
    \/ \E r \in Posts : IngressLogEvent(r)
    \/ \E r \in Posts : IngressPublish(r)
    \/ \E r \in Posts : IngressTransition(r)
    \/ \E r \in Posts : IngressError(r)

SpecIngress == Init /\ [][NextIngress]_vars

\* The pipeline on topics that also carry messages that are not envelopes
\* (no clock, no crashes: the handlers run to their end)
NextDecode ==
    \/ \E p \in PoisonIds, topicName \in {TOPIC_REASONING, TOPIC_ACTION},
          data \in PoisonData : ForeignPublish(p, topicName, data)
    \/ \E e \in EventIds \cup PoisonIds : Deliver(e)
    \/ \E r \in Reqs, body \in Bodies, key \in Keys \cup {NoKey},
          c \in {NoConv, ClientConvId} \cup {d \in ConvIds : Exists(conversations[d])} :
          IngressReceive(r, body, key, c)
    \/ \E r \in Reqs : IngressClaimKey(r)
    \/ \E r \in Reqs : IngressCreateConversation(r)
    \/ \E r \in Reqs : IngressSaveMessage(r)
    \/ \E r \in Reqs : IngressLogEvent(r)
    \/ \E r \in Reqs : IngressPublish(r)
    \/ \E r \in Reqs : IngressTransition(r)
    \/ \E i \in InvIds : HandlerClaimReceipt(i)
    \/ \E i \in InvIds : HandlerCompleteReceipt(i)
    \/ \E i \in InvIds : ReasonerSaveIntent(i)
    \/ \E i \in InvIds : ReasonerLogEvent(i)
    \/ \E i \in InvIds : ReasonerTransition(i)
    \/ \E i \in InvIds : ReasonerPublish(i)
    \/ \E i \in InvIds : ExecutorFind(i)
    \/ \E i \in InvIds : ExecutorSave(i)
    \/ \E i \in InvIds : ExecutorLogEvent(i)
    \/ \E i \in InvIds : ExecutorTransition(i)

SpecDecode == Init /\ [][NextDecode]_vars

\* Ingress and the Reasoner with repeated POSTs: several requests without a
\* key, each either starting a conversation or naming one that exists, and
\* the Reasoner invocations on their events, with redeliveries and the clock
\* (an invocation that crashed is one that takes no further step)
NextReuse ==
    \/ Tick
    \/ \E r \in Posts, c \in {NoConv} \cup {d \in ConvIds : Exists(conversations[d])} :
          IngressReceive(r, [content |-> "FIND cats", contentType |-> "string"],
                         NoKey, c)
    \/ \E r \in Posts : IngressCreateConversation(r)
    \/ \E r \in Posts : IngressSaveMessage(r)
    \/ \E r \in Posts : IngressLogEvent(r)
    \/ \E r \in Posts : IngressPublish(r)
    \/ \E r \in Posts : IngressTransition(r)
    \/ \E e \in ReasoningEventIds : Deliver(e)
    \/ \E i \in InvIds : HandlerClaimReceipt(i)
    \/ \E i \in InvIds : HandlerCompleteReceipt(i)
    \/ \E i \in InvIds : ReasonerSaveIntent(i)
    \/ \E i \in InvIds : ReasonerLogEvent(i)
    \/ \E i \in InvIds : ReasonerTransition(i)
    \/ \E i \in InvIds : ReasonerPublish(i)

SpecReuse == Init /\ [][NextReuse]_vars

\* The pipeline with an Executor topic that also carries an action_requested
\* envelope of foreign origin (no clock, no crashes)
NextForeign ==
    \/ \E c \in {d \in ConvIds : Exists(conversations[d])},
          action \in ForeignActions : ForeignAction(c, action)
    \/ \E e \in EventIds \cup {ForeignEventId} : Deliver(e)
    \/ \E r \in Reqs, body \in Bodies, key \in Keys \cup {NoKey},
          c \in {NoConv, ClientConvId} \cup {d \in ConvIds : Exists(conversations[d])} :
          IngressReceive(r, body, key, c)
    \/ \E r \in Reqs : IngressClaimKey(r)
    \/ \E r \in Reqs : IngressCreateConversation(r)
    \/ \E r \in Reqs : IngressSaveMessage(r)
    \/ \E r \in Reqs : IngressLogEvent(r)
    \/ \E r \in Reqs : IngressPublish(r)
    \/ \E r \in Reqs : IngressTransition(r)
    \/ \E i \in InvIds \cup ForeignInvIds : HandlerClaimReceipt(i)
    \/ \E i \in InvIds \cup ForeignInvIds : HandlerCompleteReceipt(i)
    \/ \E i \in InvIds \cup ForeignInvIds : ReasonerSaveIntent(i)
    \/ \E i \in InvIds \cup ForeignInvIds : ReasonerLogEvent(i)
    \/ \E i \in InvIds \cup ForeignInvIds : ReasonerTransition(i)
    \/ \E i \in InvIds \cup ForeignInvIds : ReasonerPublish(i)
    \/ \E i \in InvIds \cup ForeignInvIds : ExecutorFind(i)
    \/ \E i \in InvIds \cup ForeignInvIds : ExecutorSave(i)
    \/ \E i \in InvIds \cup ForeignInvIds : ExecutorLogEvent(i)
    \/ \E i \in InvIds \cup ForeignInvIds : ExecutorTransition(i)

SpecForeign == Init /\ [][NextForeign]_vars

---------------------------------------------------------------------------
(* Properties of the store operations *)

Terminal == {"ACTION_COMPLETED", "FAILED_VALIDATION", "FAILED_EXECUTION"}

TransitionTable ==
    {<<"RECEIVED", "REASONING_REQUESTED">>,
     <<"REASONING_REQUESTED", "INTENT_VALIDATED">>,
     <<"REASONING_REQUESTED", "FAILED_VALIDATION">>,
     <<"INTENT_VALIDATED", "ACTION_REQUESTED">>,
     <<"ACTION_REQUESTED", "ACTION_COMPLETED">>,
     <<"ACTION_REQUESTED", "FAILED_EXECUTION">>}

\* caller k's transaction of kind op commits in this step
Commits(k, op) == tx[k].pc = "commit" /\ tx[k].op = op /\ tx'[k].pc = "done"

\* C1: transitionState(id, next) commits the write of next iff the
\* conversation exists and (current -> next) is an edge of the transition
\* table; in every other case (a terminal state, a self-transition, a missing
\* conversation) it fails and the stored conversation is unchanged.
C1_TransitionCommitsIffEdge ==
    [][\A k \in Callers :
          Commits(k, "transitionState") =>
             LET id == tx[k].id
                 nextState == tx[k].arg
                 current == conversations[id]
             IN  IF Exists(current) /\ <<current.state, nextState>> \in TransitionTable
                 THEN /\ tx'[k].threw = ""
                      /\ conversations'[id].state = nextState
                 ELSE /\ tx'[k].threw # ""
                      /\ conversations' = conversations]_vars

\* one caller has moved the conversation to ACTION_COMPLETED, another has
\* then been refused a transition out of that terminal state
C1_Witness ==
    \E k, j \in Callers :
       /\ tx[j].pc = "done" /\ tx[j].op = "transitionState"
       /\ tx[j].threw = "" /\ tx[j].arg = "ACTION_COMPLETED"
       /\ tx[k].pc = "done" /\ tx[k].op = "transitionState"
       /\ tx[k].threw = "InvalidTransition"
       /\ conversations[StoreConv].state = "ACTION_COMPLETED"

ReceiptGrants(e) == {g \in grants : g.op = "claimReceipt" /\ g.id = e}

\* C4: for any eventId, of the concurrent claimReceipt callers exactly one
\* gets true when no receipt exists, and exactly one of the concurrent
\* reclaimers gets true when the receipt is processing and stale: no two
\* callers obtain true from the same receipt state.
C4_OneClaimerPerReceiptState ==
    \A e \in EventIds :
       /\ \A g1, g2 \in ReceiptGrants(e) : g1.observed = g2.observed => g1 = g2
       /\ \A g \in ReceiptGrants(e) :
             \/ ~Exists(g.observed)
             \/ /\ g.observed.status = "processing"
                /\ g.at - g.observed.claimedAt >= 120000
       /\ (Exists(receipts[e]) /\ Field.claimedAt \in DOMAIN receipts[e])
             => \E g \in ReceiptGrants(e) : ~Exists(g.observed)
       /\ (Exists(receipts[e]) /\ Field.retriedAt \in DOMAIN receipts[e])
             => \E g \in ReceiptGrants(e) :
                   Exists(g.observed) /\ g.at = receipts[e].retriedAt

\* two callers raced for the stale receipt: one reclaimed it, the other got false
C4_Witness ==
    \E k, j \in Callers :
       /\ tx[k].pc = "done" /\ tx[k].op = "claimReceipt" /\ tx[k].ret = TRUE
       /\ tx[j].pc = "done" /\ tx[j].op = "claimReceipt" /\ tx[j].ret = FALSE
       /\ tx[k].at = tx[j].at
       /\ Cardinality(ReceiptGrants(StoreEvent)) = 2
       /\ Field.retriedAt \in DOMAIN receipts[StoreEvent]

\* C5: claimReceipt(eventId, meta) is this function of the stored receipt and
\* the clock: (1) no receipt -> create {processing, claimedAt: now, meta},
\* true; (2) completed -> false; (3) processing and now - claimedAt < 120000
\* -> false; (4) processing and now - claimedAt >= 120000 -> claimedAt := now,
\* retriedAt := now, status stays processing, handler/conversationId/messageId
\* stay as they were, true.
C5_ClaimReceiptFunction ==
    [][\A k \in Callers :
          Commits(k, "claimReceipt") =>
             LET old == receipts[tx[k].id]
                 new == receipts'[tx[k].id]
                 meta == tx[k].arg
                 t == tx[k].at
                 ret == tx'[k].ret
             IN  CASE ~Exists(old) ->
                        /\ ret = TRUE
                        /\ new.status = "processing" /\ new.claimedAt = t
                        /\ new.handler = meta.handler
                        /\ new.conversationId = meta.conversationId
                        /\ new.messageId = meta.messageId
                   [] Exists(old) /\ old.status = "completed" -> ret = FALSE
                   [] Exists(old) /\ old.status = "processing"
                         /\ t - old.claimedAt < 120000 -> ret = FALSE
                   [] Exists(old) /\ old.status = "processing"
                         /\ t - old.claimedAt >= 120000 ->
                        /\ ret = TRUE
                        /\ new.status = "processing"
                        /\ new.claimedAt = t /\ new.retriedAt = t
                        /\ new.handler = old.handler
                        /\ new.conversationId = old.conversationId
                        /\ new.messageId = old.messageId]_vars

\* a caller passing another handler has reclaimed the stale receipt at the
\* boundary age, and the receipt still names the first claimer's handler
C5_Witness ==
    \E k \in Callers :
       /\ tx[k].pc = "done" /\ tx[k].op = "claimReceipt" /\ tx[k].ret = TRUE
       /\ Exists(receipts[StoreEvent])
       /\ Field.retriedAt \in DOMAIN receipts[StoreEvent]
       /\ receipts[StoreEvent].retriedAt = tx[k].at
       /\ receipts[StoreEvent].claimedAt = 120000
       /\ receipts[StoreEvent].status = "processing"
       /\ receipts[StoreEvent].handler # tx[k].arg.handler

KeyGrants(key) == {g \in grants : g.op = "claimIdempotencyKey" /\ g.id = key}

\* C10: for any idempotency key, claimIdempotencyKey returns {isNew: true} to
\* at most one caller; every other caller gets {isNew: false,
\* existingMessageId} with the messageId passed by the caller that got true.
C10_OneKeyClaimer ==
    \A key \in Keys :
       /\ Cardinality(KeyGrants(key)) <= 1
       /\ \A k \in Callers :
             (tx[k].pc = "done" /\ tx[k].op = "claimIdempotencyKey" /\ tx[k].id = key)
                => IF tx[k].ret.isNew
                   THEN \E g \in KeyGrants(key) : g.caller = k /\ g.arg = tx[k].arg
                   ELSE \E g \in KeyGrants(key) :
                           tx[k].ret.existingMessageId = g.arg

\* two callers raced for the key: one got isNew, the other the winner's messageId
C10_Witness ==
    \E k, j \in Callers :
       /\ k # j
       /\ tx[k].pc = "done" /\ tx[k].op = "claimIdempotencyKey" /\ tx[k].ret.isNew
       /\ tx[j].pc = "done" /\ tx[j].op = "claimIdempotencyKey" /\ ~tx[j].ret.isNew
       /\ tx[j].ret.existingMessageId = CallerMsg(k)
       /\ tx[j].at = tx[k].at

---------------------------------------------------------------------------
(* Properties of the pipeline *)

InvsOf(e) == {i \in InvIds : i[1] = e}

\* the receipt of e has been reclaimed at least once
Reclaimed(e) == Exists(receipts[e]) /\ Field.retriedAt \in DOMAIN receipts[e]

\* no invocation of e is in flight
Settled(e) == \A i \in InvsOf(e) : ~Running(i)

ResultsFor(c, intentId) ==
    {a \in actions : a.conversationId = c /\ a.intentId = intentId}

\* C2: under every interleaving of Ingress, Reasoner and Executor invocations
\* with duplicate deliveries, crashes and stale-receipt reclaims, the stored
\* state of a conversation follows a path of the transition graph from
\* RECEIVED: a new conversation is stored as RECEIVED, each change of state is
\* an edge of the table, and a terminal state never changes again.
C2_StatePath ==
    [][\A c \in ConvIds :
          IF ~Exists(conversations[c])
          THEN Exists(conversations'[c]) => conversations'[c].state = "RECEIVED"
          ELSE /\ Exists(conversations'[c])
               /\ conversations'[c].state # conversations[c].state
                     => <<conversations[c].state, conversations'[c].state>>
                           \in TransitionTable
               /\ conversations[c].state \in Terminal
                     => conversations'[c].state = conversations[c].state]_vars

\* a conversation has reached ACTION_COMPLETED although an invocation
\* crashed, a receipt was reclaimed and a delivery was skipped as a duplicate
C2_Witness ==
    /\ \E c \in ConvIds :
          Exists(conversations[c]) /\ conversations[c].state = "ACTION_COMPLETED"
    /\ \E e \in EventIds : Reclaimed(e)
    /\ \E i \in InvIds : inv[i].pc = "nacked" /\ inv[i].outcome = "crash"
    /\ \E i \in InvIds : inv[i].pc = "acked" /\ inv[i].outcome = "duplicate"

\* the terminal state the intent and tool of request r determine
ExpectedState(r) ==
    LET raw == mockReasoning(req[r].content, req[r].conversationId,
                             req[r].messageId, IntentId(r, 1))
    IN  IF ~validateIntent(raw).valid THEN "FAILED_VALIDATION"
        ELSE IF executeTool(raw.action, raw.parameters).success
        THEN "ACTION_COMPLETED" ELSE "FAILED_EXECUTION"

\* every envelope published for conversation c is acknowledged and no
\* invocation of it is in flight: the bus owes c no further delivery
NothingOwed(c) ==
    \A e \in EventIds :
       (Exists(bus[e]) /\ bus[e].conversationId = c) => bus[e].acked /\ Settled(e)

\* C3: a conversation created by an accepted POST /messages ends in the
\* terminal state its intent and tool determine.  Stated on finite runs: once
\* the POST has been answered 201 and the bus owes the conversation no
\* further delivery, the stored state is that terminal state.
C3_SettledConversationIsTerminal ==
    \A r \in Reqs :
       (/\ req[r].pc = "responded"
        /\ req[r].response.status = 201
        /\ ~req[r].existing
        /\ NothingOwed(req[r].conversationId))
          => conversations[req[r].conversationId].state = ExpectedState(r)

\* C6: for any intentId at most one ActionResult document exists, in every
\* reachable state.
C6_OneResultPerIntent ==
    \A a1, a2 \in actions :
       (a1.conversationId = a2.conversationId /\ a1.intentId = a2.intentId)
          => a1.actionId = a2.actionId

\* C7: an Executor invocation claimed the receipt of an action_requested
\* event and died before completeReceipt; once a later delivery has reclaimed
\* the stale receipt and returned, the conversation is ACTION_COMPLETED with
\* exactly one ActionResult.
C7_CrashedExecutorRecovers ==
    \A e \in ActionEventIds :
       (/\ Exists(bus[e])
        /\ Reclaimed(e)
        /\ Settled(e)
        /\ \E i \in InvsOf(e) : inv[i].pc = "nacked" /\ inv[i].outcome = "crash"
        /\ \E i \in InvsOf(e) : inv[i].pc = "acked" /\ inv[i].outcome # "duplicate")
          => /\ conversations[bus[e].conversationId].state = "ACTION_COMPLETED"
             /\ Cardinality(ResultsFor(bus[e].conversationId,
                                       bus[e].payload.intentId)) = 1

\* C8: the earlier Reasoner invocation has ended after moving the
\* conversation to INTENT_VALIDATED; the invocation that reclaimed the receipt
\* re-attempts -> INTENT_VALIDATED, tolerates InvalidTransition and goes on to
\* publish action_requested (it does not leave the handler on the error).
C8_ReplayToleratesInvalidTransition ==
    [][\A i \in InvIds :
          (/\ inv[i].pc = "toValidated"
           /\ Reclaimed(i[1])
           /\ receipts[i[1]].retriedAt = inv[i].at
           /\ \A j \in InvsOf(i[1]) \ {i} : ~Running(j)
           /\ Exists(conversations[bus[i[1]].conversationId])
           /\ conversations[bus[i[1]].conversationId].state = "INTENT_VALIDATED"
           /\ inv'[i] # inv[i]
           /\ inv'[i].outcome # "crash")
             => inv'[i].pc = "publishEvent"]_vars

\* C9: an envelope whose claimer raised before completeReceipt is not
\* acknowledged and dropped by a redelivery that finds the receipt processing
\* and not yet stale: an acknowledged envelope with no invocation in flight
\* has been processed to completion.
C9_AckedMeansCompleted ==
    \A e \in EventIds :
       (Exists(bus[e]) /\ bus[e].acked /\ Settled(e))
          => Exists(receipts[e]) /\ receipts[e].status = "completed"

---------------------------------------------------------------------------
(* Properties of Ingress *)

\* request r passed the body check (it has ids and a key slot)
Accepted(r) == req[r].pc # "idle" /\ Field.key \in DOMAIN req[r]

Responded(r, status) == req[r].pc = "responded" /\ req[r].response.status = status

\* two requests with identical body and the same X-Idempotency-Key
SameSubmission(r1, r2) ==
    /\ r1 # r2
    /\ Accepted(r1) /\ Accepted(r2)
    /\ req[r1].key # NoKey /\ req[r1].key = req[r2].key
    /\ req[r1].content = req[r2].content
    /\ req[r1].existing = req[r2].existing
    /\ req[r1].existing => req[r1].conversationId = req[r2].conversationId

\* C11: two concurrent POST /messages with identical body (content, no
\* conversationId) and the same X-Idempotency-Key: in every interleaving only
\* one conversation is created and only one reasoning_requested event is
\* published, and when both are answered (no awaited call having failed, no
\* third request having sent the key) one answer is 201 and the other
\* 200 {duplicate: true} with the 201's messageId.
C11_ClientDedup ==
    \A r1, r2 \in Posts :
       (SameSubmission(r1, r2) /\ ~req[r1].existing) =>
          /\ Cardinality({c \in {req[r1].conversationId, req[r2].conversationId} :
                             Exists(conversations[c])}) <= 1
          /\ Cardinality({e \in {req[r1].eventId, req[r2].eventId} :
                             Exists(bus[e])}) <= 1
          /\ (/\ req[r1].pc = "responded" /\ req[r1].response.status # 500
              /\ req[r2].pc = "responded" /\ req[r2].response.status # 500
              /\ \A r3 \in Posts \ {r1, r2} :
                    Accepted(r3) => req[r3].key # req[r1].key)
                => \E w, l \in {r1, r2} :
                      /\ w # l
                      /\ req[w].response.status = 201
                      /\ req[l].response.status = 200
                      /\ req[l].response.duplicate
                      /\ req[l].response.messageId = req[w].response.messageId

\* the request that arrived second won the key and was answered 201, the one
\* that arrived first was answered 200 with the winner's messageId
C11_Witness ==
    /\ SameSubmission(1, 2) /\ ~req[1].existing
    /\ Responded(2, 201)
    /\ Responded(1, 200)
    /\ req[1].response.messageId = MsgId(2)
    /\ Exists(conversations[ConvId(2)]) /\ ~Exists(conversations[ConvId(1)])
    /\ Exists(bus[ReasoningEventId(2)]) /\ ~Exists(bus[ReasoningEventId(1)])

\* C12: a POST /messages whose key claim returns isNew = false answers 200
\* with the original messageId and duplicate: true and changes nothing: no
\* conversation, message, log entry or key record is written, nothing is
\* published, and the request takes no further step (no transition).
C12_DuplicateChangesNothing ==
    [][\A r \in Posts :
          /\ (/\ req[r].pc = "claimIdempotencyKey"
              /\ Exists(idempotencyKeys[req[r].key])
              /\ req'[r] # req[r]
              /\ ~(req'[r].pc = "responded" /\ req'[r].response.status = 500))
                => /\ req'[r].pc = "responded"
                   /\ req'[r].response.status = 200
                   /\ req'[r].response.duplicate
                   /\ req'[r].response.messageId
                         = idempotencyKeys[req[r].key].messageId
                   /\ UNCHANGED <<storeVars, subVars, bus>>
          /\ req[r].pc = "responded" => req'[r] = req[r]]_vars

\* a request was answered 200 as a duplicate of a message that an earlier
\* request, answered 201, had saved
C12_Witness ==
    \E r, w \in Posts :
       /\ Responded(r, 200) /\ req[r].response.duplicate
       /\ Responded(w, 201)
       /\ req[r].response.messageId = req[w].messageId
       /\ ~(\E m \in messages : m.messageId = req[r].messageId)
       /\ \E m \in messages : m.messageId = req[w].messageId

---------------------------------------------------------------------------
(* Properties of the consumers *)

IntentsFor(messageId) == {d \in intents : d.messageId = messageId}

\* the receipt of e is completed, or processing and younger than the threshold
HeldReceipt(e) ==
    /\ Exists(receipts[e])
    /\ \/ receipts[e].status = "completed"
       \/ /\ receipts[e].status = "processing"
          /\ now - receipts[e].claimedAt < RECEIPT_STALE_THRESHOLD_MS

C14_OneIntentPerMessage ==
    \A e \in ReasoningEventIds :
       Exists(bus[e]) => Cardinality(IntentsFor(bus[e].messageId)) <= 1

\* a Reasoner invocation that obtained the claim and has not left the handler
ReasonerAt(i, pcs) ==
    /\ inv[i].pc \in pcs
    /\ inv[i].handler = "reasoner"

---------------------------------------------------------------------------
(* Further properties of the store operations *)

\* C17: receipts progress only processing -> completed: a receipt's status is
\* processing or completed, and after any claimReceipt and completeReceipt
\* calls by any workers (a late completeReceipt included) a completed receipt
\* never returns to processing and is never claimed again.
C17_ReceiptsOnlyAdvance ==
    [][\A e \in EventIds :
          /\ Exists(receipts'[e])
                => receipts'[e].status \in {"processing", "completed"}
          /\ (Exists(receipts[e]) /\ receipts[e].status = "completed")
                => /\ Exists(receipts'[e])
                   /\ receipts'[e].status = "completed"
                   /\ \A k \in Callers :
                         (Commits(k, "claimReceipt") /\ tx[k].id = e)
                            => tx'[k].ret = FALSE
                   /\ {g \in grants' : g.op = "claimReceipt" /\ g.id = e}
                         = ReceiptGrants(e)]_vars

\* the receipt was claimed, reclaimed and completed, and a caller that asked
\* for it afterwards was refused
C17_Witness ==
    \E k \in Callers :
       /\ Reclaimed(StoreEvent)
       /\ receipts[StoreEvent].status = "completed"
       /\ tx[k].pc = "done" /\ tx[k].op = "claimReceipt" /\ tx[k].ret = FALSE
       /\ tx[k].at >= receipts[StoreEvent].completedAt
       /\ receipts[StoreEvent].completedAt >= receipts[StoreEvent].retriedAt

\* C18: completeReceipt(eventId) is an idempotent upsert: it does not fail on
\* an absent receipt (it creates one with status = completed), it leaves every
\* field other than status and completedAt unchanged, and a second call
\* leaves the status the first call set.
C18_CompleteReceiptUpsert ==
    [][/\ ENABLED CompleteReceipt(StoreEvent)
       /\ \A e \in EventIds :
             (receipts'[e] # receipts[e] /\ tx' = tx) =>
                LET old == receipts[e]
                    new == receipts'[e]
                    kept == (IF Exists(old) THEN DOMAIN old ELSE {})
                               \ {"status", "completedAt"}
                IN  /\ new.status = "completed"
                    /\ new.completedAt = now
                    /\ DOMAIN new = kept \cup {"status", "completedAt"}
                    /\ \A f \in kept : new[f] = old[f]
                    /\ completeReceiptDoc(new).status = new.status]_vars

\* completeReceipt was called with no receipt stored and created one
C18_Witness ==
    /\ Exists(receipts[StoreEvent])
    /\ DOMAIN receipts[StoreEvent] = {"status", "completedAt"}
    /\ receipts[StoreEvent].status = "completed"
    /\ receipts[StoreEvent].completedAt = 60000

\* C19: createConversation(id) fails, leaving the existing document (its state
\* in particular) unchanged, when a conversation with that id already exists.
\* (A step that changes a conversation while no transaction commits is a
\* createConversation call.)
C19_CreateFailsOnExisting ==
    [][\A c \in ConvIds :
          (Exists(conversations[c]) /\ tx' = tx)
             => conversations'[c] = conversations[c]]_vars

\* C20: an IdempotencyKey record is immutable once written: after the first
\* successful claimIdempotencyKey(key, m) no later claim, with whatever
\* messageId, changes the messageId (or the creation time) stored under it.
C20_KeyRecordImmutable ==
    [][\A key \in Keys :
          Exists(idempotencyKeys[key])
             => /\ Exists(idempotencyKeys'[key])
                /\ idempotencyKeys'[key].messageId = idempotencyKeys[key].messageId
                /\ idempotencyKeys'[key].createdAt = idempotencyKeys[key].createdAt]_vars

\* the key was written by one caller; a later claim by the other caller with
\* another messageId was answered isNew: false and left the record as it was
C20_Witness ==
    \E k, j \in Callers :
       /\ k # j
       /\ Exists(idempotencyKeys[StoreKey])
       /\ idempotencyKeys[StoreKey].messageId = CallerMsg(k)
       /\ tx[j].pc = "done" /\ tx[j].op = "claimIdempotencyKey"
       /\ ~tx[j].ret.isNew
       /\ tx[j].at > idempotencyKeys[StoreKey].createdAt

---------------------------------------------------------------------------
(* Properties of the event log and of redelivery *)

\* C21: the conversation event log is append-only: an entry written under a
\* conversation for some eventId is never overwritten or removed by a later
\* operation of Ingress, Reasoner or Executor (its eventType and payload stay
\* as first written).
C21_LogAppendOnly ==
    [][\A x \in events : x \in events']_vars

\* invocations of e that ran the whole handler and completed the receipt
CompletedBy(e) ==
    {i \in InvsOf(e) : inv[i].pc = "acked" /\ inv[i].outcome = "completed"}

\* the action_requested events published by the invocations of e
PublishedFor(e) ==
    {a \in ActionEventIds : a[2] = e[2] /\ Exists(bus[a])}

\* C22: processing is idempotent with respect to eventId: however often an
\* envelope is delivered, one receipt (the document named by the eventId)
\* stands for it, at most one invocation carries the handler's effects through
\* to completeReceipt, and at most one action_requested event is published
\* for a reasoning_requested event.
C22_OneCompletionPerEvent ==
    \A e \in EventIds :
       /\ Exists(receipts[e]) => receipts[e].eventId = e
       /\ Cardinality(CompletedBy(e)) <= 1
       /\ e \in ReasoningEventIds => Cardinality(PublishedFor(e)) <= 1

\* an envelope was delivered twice, its receipt was reclaimed by the second
\* delivery while the first was still running, and exactly one of the two
\* invocations completed
C22_Witness ==
    \E e \in EventIds :
       /\ Reclaimed(e)
       /\ receipts[e].status = "completed"
       /\ Cardinality(CompletedBy(e)) = 1
       /\ \E i \in InvsOf(e) : inv[i].pc = "nacked" /\ inv[i].outcome = "InvalidTransition"

---------------------------------------------------------------------------
(* Properties of the handlers' failure paths *)

\* a message whose message.data decodeEventData rejects
Poison(e) == Exists(bus[e]) /\ HandlerDecode(e).threw # ""

\* C23: when decodeEventData fails for a delivery (missing or undecodable
\* message data) the Reasoner and the Executor return normally (the delivery
\* is acknowledged, not retried on their account) and do nothing else: no
\* store write, no receipt claim, no state transition, no publish.
C23_PoisonAcked ==
    [][/\ \A e \in EventIds \cup PoisonIds :
             (Poison(e) /\ bus'[e].attempts = bus[e].attempts + 1) =>
                LET i == <<e, bus'[e].attempts>>
                IN  /\ inv'[i].pc = "acked"
                    /\ inv'[i].handler = Subscriber(bus[e].topic)
                    /\ bus'[e].acked
                    /\ bus'[e].data = bus[e].data
                    /\ \A f \in DOMAIN bus \ {e} : bus'[f] = bus[f]
                    /\ UNCHANGED <<storeVars, subVars, req>>
       /\ \A i \in PoisonInvIds :
             /\ inv[i].pc = "acked" => inv'[i] = inv[i]
             /\ inv'[i].pc \in {"idle", "acked"}]_vars

\* a message that is not JSON was delivered twice to the Executor while a
\* conversation was waiting for its action, and both deliveries were acked
C23_Witness ==
    \E p \in PoisonIds :
       /\ Poison(p)
       /\ bus[p].data.kind = "notJson" /\ bus[p].topic = TOPIC_ACTION
       /\ bus[p].attempts = 2 /\ bus[p].acked
       /\ \A n \in 1..2 :
             /\ inv[<<p, n>>].pc = "acked"
             /\ inv[<<p, n>>].outcome = "decodeFailed"
             /\ inv[<<p, n>>].handler = "executor"
       /\ \E c \in ConvIds :
             Exists(conversations[c]) /\ conversations[c].state = "ACTION_REQUESTED"

\* the tool function knows these actions and fails on every other
ToolKnows(action) == action \in {"search", "calculate", "summarize", "translate"}

\* C24: tool failure is a terminal outcome, not a retry.  An Executor
\* invocation that runs the tool persists the ActionResult with the tool's
\* success flag (and the error when it failed); with the conversation in
\* ACTION_REQUESTED it moves it to FAILED_EXECUTION when the tool failed and
\* to ACTION_COMPLETED when it succeeded, goes on to complete the receipt, and
\* returns (ack).
C24_ToolFailureIsTerminal ==
    [][\A i \in InvIds \cup ForeignInvIds :
          (inv[i].pc # "idle" /\ inv[i].handler = "executor" /\ inv'[i] # inv[i]) =>
             LET env == bus[i[1]]
                 c == env.conversationId
                 ok == ToolKnows(env.payload.action)
             IN  /\ inv[i].pc = "saveActionResult" =>
                       /\ inv'[i].pc = "logEvent"
                       /\ \E a \in actions' :
                             /\ a.actionId = ActionId(i[1], i[2])
                             /\ a.conversationId = c
                             /\ a.intentId = env.payload.intentId
                             /\ a.success = ok
                             /\ ~ok => Field.error \in DOMAIN a
                 /\ inv[i].pc = "logEvent" =>
                       inv'[i].pc \in {"toCompleted", "toFailedExecution"}
                 /\ (/\ inv[i].pc \in {"toCompleted", "toFailedExecution"}
                     /\ Exists(conversations[c])
                     /\ conversations[c].state = "ACTION_REQUESTED") =>
                       /\ conversations'[c].state =
                             IF ok THEN "ACTION_COMPLETED" ELSE "FAILED_EXECUTION"
                       /\ inv'[i].pc = "completeReceipt"
                 /\ inv[i].pc = "completeReceipt" =>
                       /\ receipts'[i[1]].status = "completed"
                       /\ inv'[i].pc = "acked"
                       /\ bus'[i[1]].acked]_vars

\* the tool did not know the action: the result is stored with success =
\* false and the error, the conversation is FAILED_EXECUTION, the receipt is
\* completed and the delivery acknowledged
C24_Witness ==
    \E i \in ForeignInvIds :
       /\ inv[i].pc = "acked" /\ inv[i].outcome = "completed"
       /\ bus[i[1]].payload.action = "delete"
       /\ conversations[bus[i[1]].conversationId].state = "FAILED_EXECUTION"
       /\ receipts[i[1]].status = "completed"
       /\ \E a \in actions :
             /\ a.actionId = ActionId(i[1], i[2]) /\ ~a.success
             /\ a.error = "Unknown action"

\* C25: a POST /messages whose body has no content, an empty content or a
\* content that is not a string is answered 400 and leaves the system as it
\* was: no idempotency key claimed, no conversation or message written, no
\* event published, and the request does nothing afterwards.  (Every other
\* body is taken on with the content it carries.)
C25_BadRequestChangesNothing ==
    [][\A r \in Posts :
          /\ (req[r].pc = "idle" /\ req'[r].pc # "idle") =>
                IF Field.body \in DOMAIN req'[r]
                THEN /\ \/ req'[r].body.contentType # "string"
                        \/ req'[r].body.content = ""
                     /\ req'[r].pc = "responded"
                     /\ req'[r].response.status = 400
                     /\ UNCHANGED <<storeVars, subVars, bus, inv>>
                ELSE req'[r].content \in {"FIND cats", "translate my summary"}
          /\ (req[r].pc = "responded" /\ req[r].response.status = 400)
                => req'[r] = req[r]]_vars

\* a body whose content is a number was answered 400 while another request,
\* with a key, was half way through; the store holds that request's writes only
C25_Witness ==
    \E r, q \in Posts :
       /\ Responded(r, 400) /\ req[r].body.contentType = "number"
       /\ req[q].pc = "logEvent" /\ req[q].key # NoKey
       /\ \A m \in messages : m.messageId = req[q].messageId
       /\ \A c \in ConvIds : Exists(conversations[c]) => c = req[q].conversationId
       /\ \A e \in EventIds : ~Exists(bus[e])

---------------------------------------------------------------------------
(* claimReceipt on every kind of stored receipt *)

\* a receipt claimReceipt takes neither for completed nor for a processing
\* receipt with a claimedAt value
Fallthrough(doc) ==
    /\ Exists(doc)
    /\ doc.status # "completed"
    /\ ~(doc.status = "processing" /\ Field.claimedAt \in DOMAIN doc)

---------------------------------------------------------------------------
(* Order of effects inside the handlers *)

\* the states at or after ACTION_REQUESTED
RequestedOrLater == {"ACTION_REQUESTED", "ACTION_COMPLETED", "FAILED_EXECUTION"}

\* the intent document invocation i persisted
PersistedIntent(i) ==
    {d \in intents : d.intentId = IntentId(i[1][2], i[2])
                        /\ d.conversationId = bus[i[1]].conversationId}

\* C28: for a valid intent the Reasoner's effects occur in this order within
\* one invocation: intent persisted, transition to INTENT_VALIDATED committed,
\* action_requested published (carrying the persisted intentId, action,
\* parameters, confidence), transition to ACTION_REQUESTED committed, receipt
\* completed.  Hence the stored state is INTENT_VALIDATED at the moment
\* action_requested is published, and the receipt of a reasoning_requested
\* event is never completed before the transition to ACTION_REQUESTED.
C28_ReasonerOrder ==
    [][/\ \A i \in InvIds :
             (/\ inv[i].pc # "idle" /\ inv[i].handler = "reasoner"
              /\ inv'[i] # inv[i] /\ inv'[i].pc # "nacked") =>
                LET c == bus[i[1]].conversationId
                    a == ActionEventId(i[1][2], i[2])
                IN  /\ inv[i].pc = "saveIntent" =>
                          /\ PersistedIntent(i) = {}
                          /\ ~Exists(bus[a])
                          /\ \E d \in intents' : d.intentId = IntentId(i[1][2], i[2])
                    /\ inv[i].pc = "toValidated" =>
                          /\ PersistedIntent(i) # {}
                          /\ ~Exists(bus[a])
                          /\ conversations'[c].state = "INTENT_VALIDATED"
                          /\ inv'[i].pc = "publishEvent"
                    /\ inv[i].pc = "publishEvent" =>
                          /\ conversations[c].state = "INTENT_VALIDATED"
                          /\ ~Exists(bus[a]) /\ Exists(bus'[a])
                          /\ \E d \in PersistedIntent(i) :
                                /\ d.valid
                                /\ bus'[a].payload =
                                      [action |-> d.action,
                                       confidence |-> d.confidence,
                                       intentId |-> d.intentId,
                                       parameters |-> d.parameters]
                          /\ receipts[i[1]].status = "processing"
                          /\ inv'[i].pc = "toRequested"
                    /\ inv[i].pc = "toRequested" =>
                          /\ Exists(bus[a])
                          /\ receipts[i[1]].status = "processing"
                          /\ conversations'[c].state = "ACTION_REQUESTED"
                          /\ inv'[i].pc = "completeReceipt"
                    /\ inv[i].pc = "completeReceipt" =>
                          /\ conversations[c].state \in RequestedOrLater
                          /\ receipts'[i[1]].status = "completed"
       /\ \A e \in ReasoningEventIds :
             (Exists(receipts'[e]) /\ receipts'[e].status = "completed")
                => conversations'[bus'[e].conversationId].state \in RequestedOrLater]_vars

\* a Reasoner invocation ran to its end: the intent is stored, the
\* action_requested event carries it, the conversation is ACTION_REQUESTED
\* and the receipt is completed
C28_Witness ==
    \E i \in InvIds :
       /\ inv[i].pc = "acked" /\ inv[i].handler = "reasoner"
       /\ inv[i].outcome = "completed"
       /\ Exists(bus[ActionEventId(i[1][2], i[2])])
       /\ \E d \in PersistedIntent(i) :
             bus[ActionEventId(i[1][2], i[2])].payload.intentId = d.intentId
       /\ conversations[bus[i[1]].conversationId].state = "ACTION_REQUESTED"
       /\ receipts[i[1]].status = "completed"

\* C29: an Executor invocation that has claimed the receipt and is told by
\* findActionResultByIntentId that a result for the event's intentId exists
\* completes the receipt and returns (ack) and does nothing else: the tool is
\* not run, no ActionResult and no event-log entry is written, no state
\* transition is attempted.
C29_AlreadyExecutedOnlyCompletes ==
    [][\A i \in InvIds :
          (inv[i].pc # "idle" /\ inv[i].handler = "executor"
           /\ inv'[i] # inv[i] /\ inv'[i].outcome # "crash") =>
             LET env == bus[i[1]]
                 found == ResultsFor(env.conversationId, env.payload.intentId) # {}
             IN  /\ (inv[i].pc = "findActionResult" /\ found) =>
                       /\ inv'[i].pc = "completeReceipt"
                       /\ inv'[i].outcome = "alreadyExecuted"
                       /\ UNCHANGED <<storeVars, subVars, bus>>
                 /\ (inv[i].pc = "findActionResult" /\ ~found) =>
                       inv'[i].pc = "saveActionResult" /\ inv'[i].outcome = "running"
                 /\ inv[i].outcome = "alreadyExecuted" =>
                       /\ inv[i].pc = "completeReceipt"
                       /\ inv'[i].pc = "acked"
                       /\ receipts'[i[1]].status = "completed"
                       /\ bus'[i[1]].acked
                       /\ UNCHANGED <<conversations, idempotencyKeys, subVars>>]_vars

\* an Executor invocation reclaimed the receipt, found the result its
\* predecessor had stored, completed the receipt and returned; there is one
\* result and one log entry for the event
C29_Witness ==
    \E i \in InvIds :
       /\ inv[i].pc = "acked" /\ inv[i].outcome = "alreadyExecuted"
       /\ receipts[i[1]].status = "completed"
       /\ Cardinality(ResultsFor(bus[i[1]].conversationId,
                                 bus[i[1]].payload.intentId)) = 1
       /\ \A a \in actions : a.actionId # ActionId(i[1], i[2])
       /\ Cardinality({x \in events : x.eventId = i[1]}) = 1

\* C30: in every reachable state, if the receipt of an action_requested event
\* is completed then the event's conversation is in a terminal state
\* (ACTION_COMPLETED or FAILED_EXECUTION), on every Executor path that calls
\* completeReceipt, the one taken when a result already exists included.
C30_CompletedActionReceiptIsTerminal ==
    \A e \in ActionEventIds :
       (Exists(receipts[e]) /\ receipts[e].status = "completed")
          => conversations[bus[e].conversationId].state
                \in {"ACTION_COMPLETED", "FAILED_EXECUTION"}

---------------------------------------------------------------------------
(* Further properties of the pipeline *)

\* C31: in every reachable state, if the receipt of a reasoning_requested
\* event is completed, the event's conversation is in one of
\* FAILED_VALIDATION, ACTION_REQUESTED, ACTION_COMPLETED, FAILED_EXECUTION
\* (never RECEIVED, REASONING_REQUESTED or INTENT_VALIDATED).
C31_CompletedReasoningReceipt ==
    \A e \in ReasoningEventIds :
       (Exists(receipts[e]) /\ receipts[e].status = "completed")
          => /\ Exists(conversations[bus[e].conversationId])
             /\ conversations[bus[e].conversationId].state
                   \in {"FAILED_VALIDATION", "ACTION_REQUESTED",
                        "ACTION_COMPLETED", "FAILED_EXECUTION"}

\* the receipt of a reasoning_requested event is completed after a reclaim,
\* and the conversation has gone on to ACTION_COMPLETED
C31_Witness ==
    \E e \in ReasoningEventIds :
       /\ Reclaimed(e) /\ receipts[e].status = "completed"
       /\ conversations[bus[e].conversationId].state = "ACTION_COMPLETED"

\* the action_requested events published for conversation c
ActionEventsOf(c) ==
    {a \in ActionEventIds : Exists(bus[a]) /\ bus[a].conversationId = c}

\* C32: for any conversation at most one action_requested event (one eventId)
\* is ever published, under duplicate deliveries, Reasoner invocations that
\* stop half way, stale-receipt replays and repeated POSTs naming the
\* conversation: an event, once published, stays, and no second one appears.
C32_OneActionEventPerConversation ==
    [][\A c \in ConvIds :
          /\ Cardinality({a \in ActionEventIds :
                             Exists(bus'[a]) /\ bus'[a].conversationId = c}) <= 1
          /\ \A a \in ActionEventsOf(c) :
                Exists(bus'[a]) /\ bus'[a].conversationId = c]_vars

\* two POSTs named the same conversation and both reasoning_requested events
\* reached the Reasoner, one of them twice with a reclaim: one invocation
\* published the conversation's action_requested event, another was stopped
\* by the transition guard
C32_Witness ==
    \E r, q \in Posts :
       /\ r # q
       /\ Accepted(r) /\ Accepted(q)
       /\ req[q].existing /\ req[q].conversationId = req[r].conversationId
       /\ Cardinality(ActionEventsOf(req[r].conversationId)) = 1
       /\ \E i \in InvsOf(req[r].eventId), j \in InvsOf(req[q].eventId) :
             /\ inv[i].pc \in {"toRequested", "completeReceipt", "acked"}
             /\ inv[j].pc = "nacked" /\ inv[j].outcome = "InvalidTransition"
       /\ \E e \in {req[r].eventId, req[q].eventId} : Reclaimed(e)

\* nothing has gone wrong so far: the clock has not moved, no invocation has
\* crashed, no awaited call of a request was rejected by the store or the
\* bus, every request started its own conversation, and no envelope has been
\* delivered more than once
NoFaults ==
    /\ now = 0
    /\ \A i \in InvIds : inv[i].pc = "nacked" => inv[i].outcome # "crash"
    /\ \A r \in Reqs :
          /\ Accepted(r) => ~req[r].existing
          /\ req[r].pc = "responded" => req[r].response.status \in {200, 201, 400}
    /\ \A e \in EventIds : Exists(bus[e]) => bus[e].attempts <= 1

\* C33: with no crashes, no store or bus errors and no duplicate deliveries,
\* in every interleaving of the steps of one Ingress request, its Reasoner
\* invocation and its Executor invocation (the bus may deliver an event before
\* its publisher commits the transition that follows the publish), no
\* consumer invocation fails with an invalid transition.
C33_NoInvalidTransitionWithoutFaults ==
    NoFaults =>
       \A i \in InvIds :
          inv[i].pc = "nacked" => inv[i].outcome # "InvalidTransition"

---------------------------------------------------------------------------
(* Further properties of Ingress *)

\* request r has finished, with whatever status
Finished(r) == req[r].pc = "responded"

\* C34: an idempotency key is never left claimed without its request having
\* taken effect: whenever a key record exists and the request that claimed it
\* has finished (with any status), the message with the recorded messageId is
\* persisted and its reasoning_requested event has been published.
C34_ClaimedKeyHasMessage ==
    \A key \in Keys, r \in Posts :
       (/\ Exists(idempotencyKeys[key])
        /\ Accepted(r) /\ Finished(r)
        /\ req[r].key = key
        /\ idempotencyKeys[key].messageId = req[r].messageId)
          => /\ \E m \in messages : m.messageId = idempotencyKeys[key].messageId
             /\ Exists(bus[req[r].eventId])

\* C35: if POST /messages is answered 500 because a store write or the
\* RECEIVED -> REASONING_REQUESTED transition failed, no reasoning_requested
\* event of that request has been published and no message of that request
\* is persisted.
C35_RejectedRequestLeavesNothing ==
    \A r \in Posts :
       (Accepted(r) /\ Responded(r, 500))
          => /\ ~Exists(bus[req[r].eventId])
             /\ \A m \in messages : m.messageId # req[r].messageId

---------------------------------------------------------------------------
(* The tool and the validator agree *)

\* action strings, the schema's four and others
ActionStrings == {"search", "calculate", "summarize", "translate", "delete", ""}

\* C36: executeTool returns success = true for every action validateIntent
\* accepts (search, calculate, summarize, translate) and success = false only
\* for other action strings; consequently a conversation whose
\* action_requested event the Reasoner published never reaches
\* FAILED_EXECUTION, and no result stored for it is a failure.
C36_ValidActionsSucceed ==
    /\ \A action \in ActionStrings :
          /\ executeTool(action, [query |-> "cats"]).success = ToolKnows(action)
          /\ validateIntent([action |-> action, confidence |-> 92]).valid
                = ToolKnows(action)
    /\ \A a \in ActionEventIds :
          Exists(bus[a]) =>
             /\ ToolKnows(bus[a].payload.action)
             /\ Exists(conversations[bus[a].conversationId]) =>
                   conversations[bus[a].conversationId].state # "FAILED_EXECUTION"
             /\ \A x \in actions :
                   x.conversationId = bus[a].conversationId => x.success

\* the Reasoner asked for a summary, the Executor ran the tool, the result is
\* stored as a success and the conversation is ACTION_COMPLETED
C36_Witness ==
    \E a \in ActionEventIds :
       /\ Exists(bus[a]) /\ bus[a].payload.action = "summarize"
       /\ conversations[bus[a].conversationId].state = "ACTION_COMPLETED"
       /\ \E x \in actions :
             /\ x.conversationId = bus[a].conversationId
             /\ x.success /\ x.result.tool = "summarize"

====
